---- MODULE Spec2Model ----
(***************************************************************************)
(* Model of V6.py: the per-device reset pipeline (process_device and its   *)
(* stages) and the fleet orchestrator (main).  Text that the program       *)
(* parses (command output, account types) is a sequence of one-character   *)
(* strings, so that startswith, split, strip and the `in' test are         *)
(* computed the way Python computes them.                                  *)
(***************************************************************************)
EXTENDS Integers, Sequences, FiniteSets, TLC

\* ------------------------------------------------------------------ bounds
\* Batches the orchestrator may run before the model stops discovering.
MaxBatches == 2
\* Lines of one registry dump drawn from LineSamples (SpecAccounts).
MaxLines == 2
\* Packages in one `pm list packages' output drawn from AppSamples (SpecApps).
MaxApps == 3
\* Characters appended after a (possibly truncated) trusted prefix.
MaxSuffixLen == 1

\* ----------------------------------------------------------- text literals
s_nl == <<"\n">>
s_Account_open == <<"A","c","c","o","u","n","t"," ","{">>
s_type_eq == <<"t","y","p","e","=">>
s_name_eq == <<"n","a","m","e","=">>
s_comma == <<",">>
s_rbrace == <<"}">>
s_SUCCESS == <<"S","U","C","C","E","S","S">>
Whitespace == {" ", "\t", "\n", "\r"}

\* ------------------------------------------------------ Python str methods
Range(s) == {s[i] : i \in 1..Len(s)}

\* s.startswith(p)
StartsWith(s, p) ==
  /\ Len(s) >= Len(p)
  /\ SubSeq(s, 1, Len(p)) = p

\* s.find(p) + 1: the first position where p occurs in s, 0 when it does not
Find(s, p) ==
  LET hits == {i \in 1..(Len(s) - Len(p) + 1) : SubSeq(s, i, i + Len(p) - 1) = p}
  IN  IF hits = {} THEN 0 ELSE CHOOSE i \in hits : \A j \in hits : i <= j

\* p in s
Contains(s, p) == Find(s, p) # 0

\* s.split(sep): a sequence of the pieces between the occurrences of sep
RECURSIVE Split(_, _)
Split(s, sep) ==
  LET i == Find(s, sep)
  IN  IF i = 0 THEN <<s>>
      ELSE <<SubSeq(s, 1, i - 1)>> \o Split(SubSeq(s, i + Len(sep), Len(s)), sep)

\* s.lstrip(chars) / s.rstrip(chars) / s.strip()
RECURSIVE LStripChars(_, _)
LStripChars(s, cs) ==
  IF s # <<>> /\ Head(s) \in cs THEN LStripChars(Tail(s), cs) ELSE s

RECURSIVE RStripChars(_, _)
RStripChars(s, cs) ==
  IF s # <<>> /\ s[Len(s)] \in cs THEN RStripChars(SubSeq(s, 1, Len(s) - 1), cs) ELSE s

Strip(s) == LStripChars(RStripChars(s, Whitespace), Whitespace)

\* s.splitlines() for text whose only line break is "\n"
SplitLines(s) ==
  LET parts == Split(s, s_nl)
  IN  IF parts[Len(parts)] = <<>> THEN SubSeq(parts, 1, Len(parts) - 1) ELSE parts

\* sep.join(parts)
RECURSIVE Join(_, _)
Join(parts, sep) ==
  IF parts = <<>> THEN <<>>
  ELSE IF Len(parts) = 1 THEN parts[1]
  ELSE parts[1] \o sep \o Join(Tail(parts), sep)

\* ------------------------------------------------------------- run_command
\* What subprocess.run returns with check=False: the exit status and the
\* captured text.  run_command never raises for a command that exits non-zero.
CompletedProcess(rc, out) == [returncode |-> rc, stdout |-> out]

\* ------------------------------------------- account inventory & classifier
SAMSUNG_ACCOUNT_TYPES == <<
  <<"c","o","m",".","o","s","p",".","a","p","p",".","s","i","g","n","i","n">>,
  <<"c","o","m",".","s","a","m","s","u","n","g",".","a","n","d","r","o","i","d",".","m","o","b","i","l","e","s","e","r","v","i","c","e">>,
  <<"c","o","m",".","s","a","m","s","u","n","g">> >>

\* ParseAccountLine without the IndexError path: a line without name= adds
\* a record with an empty name
ParseAccountLine_partial(raw) ==
  LET line == Strip(raw)
  IN  IF StartsWith(line, s_Account_open) /\ Contains(line, s_type_eq)
      THEN LET type_part == Strip(RStripChars(Split(line, s_type_eq)[2], {"}"}))
               name_split == Split(line, s_name_eq)
           IN  <<[name |-> IF Len(name_split) < 2 THEN <<>>
                           ELSE Strip(Split(name_split[2], s_comma)[1]),
                   type |-> type_part]>>
      ELSE <<>>

\* One line of `dumpsys account': the record it adds, or <<>> when the line
\* is not an account line or the name= field is missing (IndexError).
ParseAccountLine(raw) ==
  LET line == Strip(raw)
  IN  IF StartsWith(line, s_Account_open) /\ Contains(line, s_type_eq)
      THEN LET type_part == Strip(RStripChars(Split(line, s_type_eq)[2], {"}"}))
               name_split == Split(line, s_name_eq)
           IN  IF Len(name_split) < 2 THEN <<>>
               ELSE <<[name |-> Strip(Split(name_split[2], s_comma)[1]),
                       type |-> type_part]>>
      ELSE <<>>

RECURSIVE ParseAccountLines(_)
ParseAccountLines(lines) ==
  IF lines = <<>> THEN <<>>
  ELSE ParseAccountLine(Head(lines)) \o ParseAccountLines(Tail(lines))

get_device_accounts(result) ==
  IF result.stdout = <<>> THEN <<>>
  ELSE ParseAccountLines(SplitLines(result.stdout))

\* is_samsung_account comparing for equality instead of startswith
is_samsung_account_exact(account_type) ==
  \E i \in 1..Len(SAMSUNG_ACCOUNT_TYPES) : account_type = SAMSUNG_ACCOUNT_TYPES[i]

is_samsung_account(account_type) ==
  \E i \in 1..Len(SAMSUNG_ACCOUNT_TYPES) :
     StartsWith(account_type, SAMSUNG_ACCOUNT_TYPES[i])

\* ------------------------------------------------------------------- state
VARIABLES
  host,          \* the operator's machine: bundled files present, serial map
  mainPc,        \* where main() stands in its loop
  devices,       \* main: the list get_connected_devices() returned
  locale,        \* main: what select_language() returned ("None" for None)
  idx,           \* main: position of the start loop / the join loop
  batch,         \* batches discovered so far
  threads,       \* main: the list `threads' of line 551, by serial
  pc,            \* per thread: the step of process_device it runs next
  arg_locale,    \* per thread: the locale argument it was started with
  wallpaper,     \* per thread: the wallpaper file chosen at line 508
  started,       \* per thread: the steps of process_device entered, in order
  issued,        \* per thread: the commands run (and sleeps taken), in order
  lang_result,   \* per thread: how set_device_language ended
  primary,       \* per thread: the LocaleChanger results received (none or one)
  dump,          \* per thread: the result of the first `dumpsys account'
  accounts,      \* per thread: what the first get_device_accounts returned
  delete_targets,\* per thread: accounts logged as deletion targets (line 195)
  kept_accounts, \* per thread: accounts logged as preserved (line 193)
  non_samsung_remaining, \* per thread: the post-check list (line 232)
  listed_third_party, \* per thread: the result of `pm list packages --user 0 -3'
  listed_packages, \* per thread: the result of `pm list packages'
  device,        \* per device: what it holds, when the device is simulated
  first_run      \* per device: the outcome of a first run of the destructive stages

mainVars == <<mainPc, devices, locale, idx, batch, threads>>
accountVars == <<dump, accounts, delete_targets, kept_accounts, non_samsung_remaining>>
listVars == <<listed_third_party, listed_packages>>
simVars == <<device, first_run>>
threadVars == <<pc, arg_locale, wallpaper, started, issued, lang_result, primary,
                accountVars, listVars, simVars>>
vars == <<host, mainVars, threadVars>>

None == "None"
Serials == {"R58X1", "R3CT9"}

\* --------------------------------------------------------------- commands
\* A command is the argv handed to subprocess; `text' is a last argument
\* that was parsed out of device output (kept as characters).
Cmd(args) == [argv |-> args, text |-> <<>>]
CmdText(args, t) == [argv |-> args, text |-> t]
adb(serial, args) == Cmd(<<"adb", "-s", serial>> \o args)
sleep(seconds) == Cmd(<<"time.sleep", seconds>>)
IsRemote(c) == c.argv[1] = "adb"

\* resource_path(name) joins a base directory; the model names a bundled
\* file by its relative path.
resource_path(relative_path) == relative_path
exists(h, path) == path \in h.files

clear_app_data(serial, package) == adb(serial, <<"shell", "pm", "clear", package>>)

\* detect_series_from_serial: the series mapped to the serial, S24 when the
\* file cannot be loaded or has no entry for it.
detect_series_from_serial(h, serial_number) ==
  IF ~h.mapping_loads THEN "S24"
  ELSE IF serial_number \in DOMAIN h.mapping THEN h.mapping[serial_number]
  ELSE "S24"

\* f'{series}.png'
Png(series) ==
  CASE series = "S23" -> "S23.png"
    [] series = "S24" -> "S24.png"
    [] series = "S25" -> "S25.png"

\* line 508 without S23 among the series that have a wallpaper of their own
wallpaper_for_two_series(series) ==
  IF series \in {"S24", "S25"} THEN Png(series) ELSE "S24.png"

wallpaper_for(series) ==
  IF series \in {"S23", "S24", "S25"} THEN Png(series) ELSE "S24.png"

\* f'/sdcard/DCIM/ForHoliday/{wallpaper_file}'
RemoteWallpaper(wallpaper_file) ==
  CASE wallpaper_file = "S23.png" -> "/sdcard/DCIM/ForHoliday/S23.png"
    [] wallpaper_file = "S24.png" -> "/sdcard/DCIM/ForHoliday/S24.png"
    [] wallpaper_file = "S25.png" -> "/sdcard/DCIM/ForHoliday/S25.png"

\* f'/data/local/tmp/{dex_name}'
RemoteDex(dex_name) ==
  CASE dex_name = "locale_changer.dex" -> "/data/local/tmp/locale_changer.dex"
    [] dex_name = "account_remover.dex" -> "/data/local/tmp/account_remover.dex"
    [] dex_name = "wallpaper_setter.dex" -> "/data/local/tmp/wallpaper_setter.dex"

\* f'file://{remote_path}'
FileUrl(wallpaper_file) ==
  CASE wallpaper_file = "S23.png" -> "file:///sdcard/DCIM/ForHoliday/S23.png"
    [] wallpaper_file = "S24.png" -> "file:///sdcard/DCIM/ForHoliday/S24.png"
    [] wallpaper_file = "S25.png" -> "file:///sdcard/DCIM/ForHoliday/S25.png"

\* push_dex_if_needed: the commands it runs, and whether it returns True
push_dex_cmds(h, serial, dex_name) ==
  IF ~exists(h, resource_path(dex_name)) THEN <<>>
  ELSE <<adb(serial, <<"push", resource_path(dex_name), RemoteDex(dex_name)>>)>>

push_dex_if_needed(h, dex_name) == exists(h, resource_path(dex_name))

LANGUAGE_OPTIONS ==
  [c \in {"1", "2", "3", "4", "5"} |->
     CASE c = "1" -> "ja-JP" [] c = "2" -> "en-US" [] c = "3" -> "ko-KR"
       [] c = "4" -> "zh-CN" [] c = "5" -> "zh-TW"]

\* set_device_language: the commands it runs for a locale and the primary
\* command's result
LocaleChangerCmd(serial, loc) ==
  adb(serial, <<"shell", "CLASSPATH=/data/local/tmp/locale_changer.dex",
                "app_process", "/system/bin", "LocaleChanger", loc>>)

\* set_device_language without its first two lines: no return on no locale
set_device_language_cmds_no_guard(h, serial, loc) ==
  IF ~push_dex_if_needed(h, "locale_changer.dex") THEN <<>>
  ELSE push_dex_cmds(h, serial, "locale_changer.dex") \o <<LocaleChangerCmd(serial, loc)>>

\* set_device_language going on to the primary command without the helper
set_device_language_cmds_no_dex_check(h, serial, loc) ==
  IF loc = None THEN <<>>
  ELSE push_dex_cmds(h, serial, "locale_changer.dex") \o <<LocaleChangerCmd(serial, loc)>>

set_device_language_cmds(h, serial, loc) ==
  IF loc = None THEN <<>>
  ELSE IF ~push_dex_if_needed(h, "locale_changer.dex") THEN <<>>
  ELSE push_dex_cmds(h, serial, "locale_changer.dex") \o <<LocaleChangerCmd(serial, loc)>>

\* set_device_language comparing the output with the marker for equality
set_device_language_result_exact(h, loc, result) ==
  IF loc = None THEN "skipped"
  ELSE IF ~push_dex_if_needed(h, "locale_changer.dex") THEN "error_no_dex"
  ELSE IF result.stdout = s_SUCCESS THEN "Success"
  ELSE "Uncertain"

\* how the stage ends: nothing logged for no locale, logging.error without
\* the helper, logging.info on the marker, logging.warning otherwise
set_device_language_result(h, loc, result) ==
  IF loc = None THEN "skipped"
  ELSE IF ~push_dex_if_needed(h, "locale_changer.dex") THEN "error_no_dex"
  ELSE IF Contains(result.stdout, s_SUCCESS) THEN "Success"
  ELSE "Uncertain"

AccountRemoverCmd(serial) ==
  adb(serial, <<"shell", "CLASSPATH=/data/local/tmp/account_remover.dex",
                "app_process", "/system/bin", "AccountRemover">>)
DumpsysAccountCmd(serial) == adb(serial, <<"shell", "dumpsys", "account">>)

google_apps == <<
  "com.google.android.googlequicksearchbox", "com.android.chrome",
  "com.google.android.youtube", "com.google.android.gm",
  "com.google.android.apps.maps", "com.google.android.apps.docs",
  "com.google.android.calendar", "com.google.android.apps.photos" >>

\* clear_google_apps_history with the Google services application added
clear_google_apps_history_cmds_gms(serial) ==
  [i \in 1..Len(google_apps) |-> clear_app_data(serial, google_apps[i])]
  \o <<clear_app_data(serial, "com.google.android.gms")>>

clear_google_apps_history_cmds(serial) ==
  [i \in 1..Len(google_apps) |-> clear_app_data(serial, google_apps[i])]

wipe_internal_storage_cmds(serial) == <<
  adb(serial, <<"shell", "rm", "-rf", "/storage/emulated/0/*">>),
  adb(serial, <<"shell", "rm", "-rf", "/storage/emulated/0/.*">>) >>

clear_logs_and_cache_cmds(serial) == <<
  clear_app_data(serial, "com.android.providers.telephony"),
  adb(serial, <<"shell", "content", "delete", "--uri", "content://call_log/calls">>),
  adb(serial, <<"shell", "content", "delete", "--uri", "content://contacts/people">>),
  clear_app_data(serial, "com.sec.android.gallery3d"),
  clear_app_data(serial, "dji.mimo"),
  clear_app_data(serial, "com.nhn.android.nmap"),
  clear_app_data(serial, "com.sec.android.themestore"),
  clear_app_data(serial, "com.sec.android.app.vepreload") >>

trash_paths == <<
  "/sdcard/Android/data/com.sec.android.gallery3d/files/Trash",
  "/sdcard/Android/data/com.sec.android.gallery3d/files/.Trash",
  "/sdcard/Android/data/com.sec.android.gallery3d/cache",
  "/sdcard/Android/data/com.sec.android.app.myfiles/files/Trash",
  "/sdcard/Android/data/com.sec.android.app.myfiles/files/.Trash",
  "/sdcard/Android/data/com.sec.android.app.vepreload/files/Trash",
  "/storage/emulated/0/Android/.Trash",
  "/sdcard/.Trash",
  "/sdcard/.Trash-0",
  "/sdcard/Recycle",
  "/sdcard/DCIM/.thumbnails",
  "/sdcard/Pictures/.thumbnails",
  "/sdcard/Music/.thumbnails",
  "/sdcard/Movies/.thumbnails",
  "/sdcard/Download/.thumbnails",
  "/sdcard/Android/data/com.sec.android.gallery3d/files/.thumbnails",
  "/sdcard/Android/data/com.android.chrome/cache",
  "/sdcard/Android/data/dji.mimo/cache",
  "/sdcard/Android/data/com.nhn.android.nmap/cache" >>

TrashedDelete(serial, uri) ==
  adb(serial, <<"shell", "content", "delete", "--uri", uri, "--where", "is_trashed=1">>)

deep_clean_gallery_trash_cmds(serial) ==
  << adb(serial, <<"shell", "am", "force-stop", "com.sec.android.gallery3d">>),
     adb(serial, <<"shell", "am", "force-stop", "com.sec.android.app.myfiles">>),
     sleep("1") >>
  \o [i \in 1..Len(trash_paths) |-> adb(serial, <<"shell", "rm", "-rf", trash_paths[i]>>)]
  \o << TrashedDelete(serial, "content://media/external/file"),
        TrashedDelete(serial, "content://media/external/images/media"),
        TrashedDelete(serial, "content://media/external/video/media"),
        clear_app_data(serial, "com.sec.android.gallery3d"),
        clear_app_data(serial, "com.sec.android.app.myfiles"),
        clear_app_data(serial, "com.samsung.android.providers.media"),
        clear_app_data(serial, "com.samsung.android.providers.trash"),
        clear_app_data(serial, "com.android.providers.media"),
        clear_app_data(serial, "com.google.android.providers.media.module"),
        adb(serial, <<"shell", "am", "broadcast", "-a",
                      "android.intent.action.MEDIA_MOUNTED", "-d", "file:///sdcard">>),
        sleep("2") >>

media_uris == <<
  "content://media/external/images/media",
  "content://media/external/video/media",
  "content://media/external/audio/media",
  "content://media/external/file" >>

clear_media_store_cmds(serial) ==
  [i \in 1..Len(media_uris) |->
     adb(serial, <<"shell", "content", "delete", "--uri", media_uris[i]>>)]

\* the loop of process_device, lines 526-527
thumbnail_dirs == <<
  "/sdcard/DCIM/.thumbnails", "/sdcard/Pictures/.thumbnails",
  "/sdcard/Music/.thumbnails", "/sdcard/Movies/.thumbnails",
  "/sdcard/Download/.thumbnails" >>

final_thumbnail_cmds(serial) ==
  [i \in 1..Len(thumbnail_dirs) |-> adb(serial, <<"shell", "rm", "-rf", thumbnail_dirs[i]>>)]

push_default_wallpaper_cmds(h, serial, wallpaper_file) ==
  IF ~exists(h, resource_path(wallpaper_file)) THEN <<>>
  ELSE << adb(serial, <<"shell", "mkdir", "-p", "/sdcard/DCIM/ForHoliday">>),
          adb(serial, <<"push", resource_path(wallpaper_file), RemoteWallpaper(wallpaper_file)>>),
          adb(serial, <<"shell", "am", "broadcast", "-a",
                        "android.intent.action.MEDIA_SCANNER_SCAN_FILE",
                        "-d", FileUrl(wallpaper_file)>>) >>
       \o push_dex_cmds(h, serial, "wallpaper_setter.dex")
       \o (IF push_dex_if_needed(h, "wallpaper_setter.dex")
           THEN <<adb(serial, <<"shell", "CLASSPATH=/data/local/tmp/wallpaper_setter.dex",
                                "app_process", "/system/bin", "WallpaperSetter",
                                RemoteWallpaper(wallpaper_file)>>)>>
           ELSE <<>>)

trigger_tasker_task_cmds(serial) ==
  <<adb(serial, <<"shell", "am", "broadcast", "-a", "com.example.CHANGE_SETTINGS">>)>>

\* ------------------------------------------------- app removal, provisioning
s_package_colon == <<"p","a","c","k","a","g","e",":">>
pkg_popupcalculator == <<"c","o","m",".","s","e","c",".","a","n","d","r","o","i","d",".","a","p","p",".","p","o","p","u","p","c","a","l","c","u","l","a","t","o","r">>
pkg_nmap == <<"c","o","m",".","n","h","n",".","a","n","d","r","o","i","d",".","n","m","a","p">>
pkg_mimo == <<"d","j","i",".","m","i","m","o">>
pkg_filemanager == <<"c","o","m",".","a","l","p","h","a","i","n","v","e","n","t","o","r",".","f","i","l","e","m","a","n","a","g","e","r">>
pkg_tasker == <<"n","e","t",".","d","i","n","g","l","i","s","c","h",".","a","n","d","r","o","i","d",".","t","a","s","k","e","r","m">>

exclude_apps == <<pkg_popupcalculator, pkg_nmap, pkg_mimo, pkg_filemanager, pkg_tasker>>

\* s.replace(old, '')
Remove(s, old) == Join(Split(s, old), <<>>)

\* [line.replace('package:', '').strip() for line in output.splitlines() if line.strip()]
RECURSIVE PackageNames(_)
PackageNames(lines) ==
  IF lines = <<>> THEN <<>>
  ELSE (IF Strip(Head(lines)) # <<>>
        THEN <<Strip(Remove(Head(lines), s_package_colon))>> ELSE <<>>)
       \o PackageNames(Tail(lines))

installed_apps(output) == PackageNames(SplitLines(output))

\* the output of `pm list packages': one line `package:NAME' per package
RECURSIVE PmList(_)
PmList(apps) ==
  IF apps = <<>> THEN <<>>
  ELSE s_package_colon \o Head(apps) \o s_nl \o PmList(Tail(apps))

UninstallCmd(serial, app) ==
  CmdText(<<"adb", "-s", serial, "shell", "pm", "uninstall", "--user", "0">>, app)

\* the loop of lines 353-358 sparing every package whose name begins with
\* an entry of exclude_apps
RECURSIVE UninstallCmds_prefix(_, _)
UninstallCmds_prefix(serial, apps) ==
  IF apps = <<>> THEN <<>>
  ELSE (IF \A i \in 1..Len(exclude_apps) : ~StartsWith(Head(apps), exclude_apps[i])
        THEN <<UninstallCmd(serial, Head(apps))>> ELSE <<>>)
       \o UninstallCmds_prefix(serial, Tail(apps))

\* the loop of lines 353-358 left after its first uninstall
RECURSIVE UninstallCmds_first_only(_, _)
UninstallCmds_first_only(serial, apps) ==
  IF apps = <<>> THEN <<>>
  ELSE IF Head(apps) \notin Range(exclude_apps)
       THEN <<UninstallCmd(serial, Head(apps))>>
       ELSE UninstallCmds_first_only(serial, Tail(apps))

RECURSIVE UninstallCmds(_, _)
UninstallCmds(serial, apps) ==
  IF apps = <<>> THEN <<>>
  ELSE (IF Head(apps) \notin Range(exclude_apps)
        THEN <<UninstallCmd(serial, Head(apps))>> ELSE <<>>)
       \o UninstallCmds(serial, Tail(apps))

ListThirdPartyCmd(serial) ==
  adb(serial, <<"shell", "pm", "list", "packages", "--user", "0", "-3">>)
ListPackagesCmd(serial) == adb(serial, <<"shell", "pm", "list", "packages">>)

\* subprocess.check_output raises CalledProcessError on a non-zero exit
check_output_raises(result) == result.returncode # 0

delete_user_installed_apps_cmds(serial, result) ==
  <<ListThirdPartyCmd(serial)>>
  \o (IF check_output_raises(result) THEN <<>>
      ELSE UninstallCmds(serial, installed_apps(result.stdout)))

essential_apps == <<
  [package |-> pkg_nmap, name |-> "Nmap", apk_path |-> resource_path("nmap.apk")],
  [package |-> pkg_mimo, name |-> "Mimo", apk_path |-> resource_path("dji_mimo.apk")],
  [package |-> pkg_filemanager, name |-> "File Manager", apk_path |-> resource_path("filemanager.apk")],
  [package |-> pkg_tasker, name |-> "Tasker", apk_path |-> resource_path("Tasker.apk")] >>

RECURSIVE InstallCmds(_, _, _, _)
InstallCmds(h, serial, apps, output) ==
  IF apps = <<>> THEN <<>>
  ELSE (IF Contains(output, s_package_colon \o Head(apps).package) THEN <<>>
        ELSE IF exists(h, Head(apps).apk_path)
             THEN <<adb(serial, <<"install", "-r", Head(apps).apk_path>>)>>
             ELSE <<>>)
       \o InstallCmds(h, serial, Tail(apps), output)

ensure_essential_apps_installed_cmds(h, serial, result) ==
  <<ListPackagesCmd(serial)>>
  \o (IF check_output_raises(result) THEN <<>>
      ELSE InstallCmds(h, serial, essential_apps, result.stdout))

\* ------------------------------------------------------------ environment
\* What the operator's machine and the devices may answer.  Each set holds
\* the cases the code tells apart.
AllFiles == {"locale_changer.dex", "account_remover.dex", "wallpaper_setter.dex",
             "S23.png", "S24.png", "S25.png",
             "nmap.apk", "dji_mimo.apk", "filemanager.apk", "Tasker.apk"}

HostConfigs == {
  [files |-> AllFiles, mapping_loads |-> TRUE,
   mapping |-> [x \in {"R58X1"} |-> "S25"]],
  [files |-> {"account_remover.dex", "S24.png", "nmap.apk", "Tasker.apk"},
   mapping_loads |-> TRUE,
   mapping |-> [x \in {"R58X1", "R3CT9"} |-> IF x = "R58X1" THEN "S22" ELSE "S23"]],
  [files |-> {}, mapping_loads |-> FALSE, mapping |-> [x \in {} |-> "S24"]] }

\* `adb devices': the rows after the header, or a failing command
AdbDevicesOutputs == {
  <<>>,
  <<[serial |-> "R58X1", state |-> "device"]>>,
  <<[serial |-> "R58X1", state |-> "unauthorized"], [serial |-> "R3CT9", state |-> "device"]>>,
  <<[serial |-> "R58X1", state |-> "device"], [serial |-> "R3CT9", state |-> "device"]>> }

\* what the operator types at the language menu
MenuInputs == {"0", "1", "2", "x"}

LocaleChangerResults == {
  CompletedProcess(0, <<"S","U","C","C","E","S","S">>),
  CompletedProcess(0, <<"L","o","c","a","l","e","C","h","a","n","g","e","r",":"," ","S","U","C","C","E","S","S","\n">>),
  CompletedProcess(0, <<"s","u","c","c","e","s","s">>),
  CompletedProcess(1, <<>>),
  CompletedProcess(1, <<"S","e","c","u","r","i","t","y","E","x","c","e","p","t","i","o","n">>) }

line_samsung == <<" "," ","A","c","c","o","u","n","t"," ","{","n","a","m","e","=","m","e","@","s","a","m","s","u","n","g",".","c","o","m",","," ","t","y","p","e","=","c","o","m",".","o","s","p",".","a","p","p",".","s","i","g","n","i","n","}">>
line_google == <<" "," ","A","c","c","o","u","n","t"," ","{","n","a","m","e","=","u","s","e","r","@","g","m","a","i","l",".","c","o","m",","," ","t","y","p","e","=","c","o","m",".","g","o","o","g","l","e","}">>
dump_header == <<"A","c","c","o","u","n","t","s",":"," ","2">>

DumpResults == {
  CompletedProcess(0, <<>>),
  CompletedProcess(1, <<>>),
  CompletedProcess(1, line_google \o s_nl),
  CompletedProcess(0, dump_header \o s_nl \o line_samsung \o s_nl \o line_google \o s_nl) }

PostCheckResults == {
  CompletedProcess(0, dump_header \o s_nl \o line_samsung \o s_nl),
  CompletedProcess(0, dump_header \o s_nl \o line_samsung \o s_nl \o line_google \o s_nl) }

ThirdPartyListings == {
  CompletedProcess(1, <<>>),
  CompletedProcess(0, <<"p","a","c","k","a","g","e",":","c","o","m",".","n","h","n",".","a","n","d","r","o","i","d",".","n","m","a","p","\n","p","a","c","k","a","g","e",":","c","o","m",".","e","x","a","m","p","l","e",".","g","a","m","e","\n">>) }

PackageListings == {
  CompletedProcess(1, <<>>),
  CompletedProcess(0, <<"p","a","c","k","a","g","e",":","c","o","m",".","n","h","n",".","a","n","d","r","o","i","d",".","n","m","a","p","\n","p","a","c","k","a","g","e",":","d","j","i",".","m","i","m","o","\n","p","a","c","k","a","g","e",":","c","o","m",".","a","l","p","h","a","i","n","v","e","n","t","o","r",".","f","i","l","e","m","a","n","a","g","e","r","\n","p","a","c","k","a","g","e",":","n","e","t",".","d","i","n","g","l","i","s","c","h",".","a","n","d","r","o","i","d",".","t","a","s","k","e","r","m","\n">>),
  CompletedProcess(0, <<"p","a","c","k","a","g","e",":","c","o","m",".","a","n","d","r","o","i","d",".","s","e","t","t","i","n","g","s","\n","p","a","c","k","a","g","e",":","d","j","i",".","m","i","m","o","\n">>) }

\* ------------------------------------------------------ a simulated device
\* What a device holds: its third-party packages in listing order, the
\* lines of its account registry, files and media-index records.  A device
\* that is not simulated (its answers are drawn from the samples above)
\* holds nothing and is not tracked.
Device(pkgs, accs, fs, recs) ==
  [tracked |-> TRUE, packages |-> pkgs, accounts |-> accs, files |-> fs, media |-> recs]
Untracked ==
  [tracked |-> FALSE, packages |-> <<>>, accounts |-> <<>>, files |-> {}, media |-> {}]
NoDevices == [d \in Serials |-> Untracked]

\* the helper removes the accounts that are not Samsung accounts
AccountRemoverEffect(accs) ==
  SelectSeq(accs, LAMBDA l :
     \E i \in 1..Len(SAMSUNG_ACCOUNT_TYPES) :
        Contains(l, s_type_eq \o SAMSUNG_ACCOUNT_TYPES[i]))

\* what a command does to the device
Effect(dv, c) ==
  LET a == c.argv
      n == Len(a)
  IN  IF n < 5 THEN dv
      ELSE IF a[4] = "push" /\ a[6] \in {RemoteWallpaper(w) : w \in {"S23.png", "S24.png", "S25.png"}}
        THEN [dv EXCEPT !.files = @ \cup {[dir |-> a[6], top_hidden |-> FALSE]}]
      ELSE IF a[5] = "pm" /\ a[6] = "uninstall"
        THEN [dv EXCEPT !.packages = SelectSeq(@, LAMBDA p : p # c.text)]
      ELSE IF a[5] = "rm" /\ a[7] = "/storage/emulated/0/*"
        THEN [dv EXCEPT !.files = {f \in @ : f.top_hidden}]
      ELSE IF a[5] = "rm" /\ a[7] = "/storage/emulated/0/.*"
        THEN [dv EXCEPT !.files = {f \in @ : ~f.top_hidden}]
      ELSE IF a[5] = "rm"
        THEN [dv EXCEPT !.files = {f \in @ : f.dir # a[7]}]
      ELSE IF a[5] = "content" /\ a[6] = "delete"
        THEN [dv EXCEPT !.media =
                {r \in @ : ~(r.uri = a[8] /\ (n = 8 \/ r.is_trashed = 1))}]
      ELSE IF a[n] = "AccountRemover"
        THEN [dv EXCEPT !.accounts = AccountRemoverEffect(@)]
      ELSE dv

RECURSIVE Apply(_, _)
Apply(dv, cmds) ==
  IF cmds = <<>> THEN dv ELSE Apply(Effect(dv, Head(cmds)), Tail(cmds))

\* what the device answers to `dumpsys account' and to
\* `pm list packages --user 0 -3'
DumpOf(dv) ==
  CompletedProcess(0, IF dv.accounts = <<>> THEN <<>>
                      ELSE dump_header \o s_nl \o Join(dv.accounts, s_nl) \o s_nl)
ThirdPartyOf(dv) == CompletedProcess(0, PmList(dv.packages))

\* --------------------------------------------------------- process_device
Idle == [d \in Serials |-> "idle"]
NoSeq == [d \in Serials |-> <<>>]
NoResult == [d \in Serials |-> "none"]
NoDump == [d \in Serials |-> CompletedProcess(0, <<>>)]

\* process_device wiping the storage before it removes the apps
STAGES_wipe_first == <<
  "set_device_language", "remove_non_samsung_accounts", "clear_google_apps_history",
  "wipe_internal_storage", "delete_user_installed_apps", "clear_logs_and_cache",
  "deep_clean_gallery_trash", "clear_media_store", "final_thumbnail_cleanup",
  "push_default_wallpaper", "trigger_tasker_task", "ensure_essential_apps_installed" >>

\* process_device restoring the wallpaper before it wipes the storage
STAGES_restore_first == <<
  "set_device_language", "remove_non_samsung_accounts", "clear_google_apps_history",
  "delete_user_installed_apps", "push_default_wallpaper", "wipe_internal_storage",
  "clear_logs_and_cache", "deep_clean_gallery_trash", "clear_media_store",
  "final_thumbnail_cleanup", "trigger_tasker_task", "ensure_essential_apps_installed" >>

\* the stage calls of process_device, in the order of its body
STAGES == <<
  "set_device_language", "remove_non_samsung_accounts", "clear_google_apps_history",
  "delete_user_installed_apps", "wipe_internal_storage", "clear_logs_and_cache",
  "deep_clean_gallery_trash", "clear_media_store", "final_thumbnail_cleanup",
  "push_default_wallpaper", "trigger_tasker_task", "ensure_essential_apps_installed" >>

StageIndex(stage) == CHOOSE i \in 1..Len(STAGES) : STAGES[i] = stage

\* where control goes when a stage returns
After(stage) ==
  IF StageIndex(stage) = Len(STAGES) THEN "returned" ELSE STAGES[StageIndex(stage) + 1]

\* where control goes when a stage raises: process_device has no handler,
\* the exception leaves the thread's target and the thread ends
OnRaise(stage) == "raised"

Running(p) == p \notin {"idle", "returned", "raised"}

\* a stage whose exception takes the whole process down, every running
\* thread with it
RunStage_abort_all(d, stage, cmds, raises) ==
  /\ pc[d] = stage
  /\ started' = [started EXCEPT ![d] = Append(@, stage)]
  /\ issued' = [issued EXCEPT ![d] = @ \o cmds]
  /\ pc' = IF raises
           THEN [x \in Serials |-> IF Running(pc[x]) THEN "raised" ELSE pc[x]]
           ELSE [pc EXCEPT ![d] = After(stage)]
  /\ device' = IF device[d].tracked THEN [device EXCEPT ![d] = Apply(@, cmds)]
               ELSE device
  /\ UNCHANGED <<host, mainVars, arg_locale, wallpaper, first_run>>

\* a stage of thread d runs to its end: its commands, then return or raise
RunStage(d, stage, cmds, raises) ==
  /\ pc[d] = stage
  /\ started' = [started EXCEPT ![d] = Append(@, stage)]
  /\ issued' = [issued EXCEPT ![d] = @ \o cmds]
  /\ pc' = [pc EXCEPT ![d] = IF raises THEN OnRaise(stage) ELSE After(stage)]
  /\ device' = IF device[d].tracked THEN [device EXCEPT ![d] = Apply(@, cmds)]
               ELSE device
  /\ UNCHANGED <<host, mainVars, arg_locale, wallpaper, first_run>>

\* lines 503-508: series detection and the choice of the wallpaper file
process_device(d) ==
  /\ pc[d] = "process_device"
  /\ wallpaper' = [wallpaper EXCEPT ![d] = wallpaper_for(detect_series_from_serial(host, d))]
  /\ pc' = [pc EXCEPT ![d] = STAGES[1]]
  /\ UNCHANGED <<host, mainVars, arg_locale, started, issued, lang_result, primary,
                 accountVars, listVars, simVars>>

set_device_language(d, result) ==
  /\ RunStage(d, "set_device_language",
              set_device_language_cmds(host, d, arg_locale[d]), FALSE)
  /\ lang_result' = [lang_result EXCEPT ![d] =
                       set_device_language_result(host, arg_locale[d], result)]
  /\ primary' = [primary EXCEPT ![d] =
        IF arg_locale[d] # None /\ push_dex_if_needed(host, "locale_changer.dex")
        THEN <<result>> ELSE <<>>]
  /\ UNCHANGED <<accountVars, listVars>>

\* remove_non_samsung_accounts running the helper and the post-check a
\* second time
remove_non_samsung_accounts_cmds_retry(h, serial, accs) ==
  <<DumpsysAccountCmd(serial)>>
  \o (IF accs = <<>> THEN <<>>
      ELSE IF ~push_dex_if_needed(h, "account_remover.dex") THEN <<>>
      ELSE push_dex_cmds(h, serial, "account_remover.dex")
           \o <<AccountRemoverCmd(serial), DumpsysAccountCmd(serial),
                AccountRemoverCmd(serial), DumpsysAccountCmd(serial)>>)

\* the commands of remove_non_samsung_accounts, given what the first
\* inventory returned
remove_non_samsung_accounts_cmds(h, serial, accs) ==
  <<DumpsysAccountCmd(serial)>>
  \o (IF accs = <<>> THEN <<>>
      ELSE IF ~push_dex_if_needed(h, "account_remover.dex") THEN <<>>
      ELSE push_dex_cmds(h, serial, "account_remover.dex")
           \o <<AccountRemoverCmd(serial), DumpsysAccountCmd(serial)>>)

IsNonSamsung(a) == ~is_samsung_account(a.type)
IsSamsung(a) == is_samsung_account(a.type)

remove_non_samsung_accounts(d, first, second) ==
  LET accs == get_device_accounts(first)
      checked == accs # <<>> /\ push_dex_if_needed(host, "account_remover.dex")
  IN  /\ RunStage(d, "remove_non_samsung_accounts",
                  remove_non_samsung_accounts_cmds(host, d, accs), FALSE)
      /\ dump' = [dump EXCEPT ![d] = first]
      /\ accounts' = [accounts EXCEPT ![d] = accs]
      /\ delete_targets' = [delete_targets EXCEPT ![d] = SelectSeq(accs, IsNonSamsung)]
      /\ kept_accounts' = [kept_accounts EXCEPT ![d] = SelectSeq(accs, IsSamsung)]
      /\ non_samsung_remaining' = [non_samsung_remaining EXCEPT ![d] =
            IF checked THEN SelectSeq(get_device_accounts(second), IsNonSamsung) ELSE <<>>]
      /\ UNCHANGED <<lang_result, primary, listVars>>

clear_google_apps_history(d) ==
  /\ RunStage(d, "clear_google_apps_history", clear_google_apps_history_cmds(d), FALSE)
  /\ UNCHANGED <<lang_result, primary, accountVars, listVars>>

delete_user_installed_apps(d, result) ==
  /\ RunStage(d, "delete_user_installed_apps",
              delete_user_installed_apps_cmds(d, result), check_output_raises(result))
  /\ listed_third_party' = [listed_third_party EXCEPT ![d] = <<result>>]
  /\ UNCHANGED <<lang_result, primary, accountVars, listed_packages>>

wipe_internal_storage(d) ==
  /\ RunStage(d, "wipe_internal_storage", wipe_internal_storage_cmds(d), FALSE)
  /\ UNCHANGED <<lang_result, primary, accountVars, listVars>>

clear_logs_and_cache(d) ==
  /\ RunStage(d, "clear_logs_and_cache", clear_logs_and_cache_cmds(d), FALSE)
  /\ UNCHANGED <<lang_result, primary, accountVars, listVars>>

deep_clean_gallery_trash(d) ==
  /\ RunStage(d, "deep_clean_gallery_trash", deep_clean_gallery_trash_cmds(d), FALSE)
  /\ UNCHANGED <<lang_result, primary, accountVars, listVars>>

clear_media_store(d) ==
  /\ RunStage(d, "clear_media_store", clear_media_store_cmds(d), FALSE)
  /\ UNCHANGED <<lang_result, primary, accountVars, listVars>>

final_thumbnail_cleanup(d) ==
  /\ RunStage(d, "final_thumbnail_cleanup", final_thumbnail_cmds(d), FALSE)
  /\ UNCHANGED <<lang_result, primary, accountVars, listVars>>

push_default_wallpaper(d) ==
  /\ RunStage(d, "push_default_wallpaper",
              push_default_wallpaper_cmds(host, d, wallpaper[d]), FALSE)
  /\ UNCHANGED <<lang_result, primary, accountVars, listVars>>

trigger_tasker_task(d) ==
  /\ RunStage(d, "trigger_tasker_task", trigger_tasker_task_cmds(d), FALSE)
  /\ UNCHANGED <<lang_result, primary, accountVars, listVars>>

ensure_essential_apps_installed(d, result) ==
  /\ RunStage(d, "ensure_essential_apps_installed",
              ensure_essential_apps_installed_cmds(host, d, result),
              check_output_raises(result))
  /\ listed_packages' = [listed_packages EXCEPT ![d] = <<result>>]
  /\ UNCHANGED <<lang_result, primary, accountVars, listed_third_party>>

\* -------------------------------------------------------------------- main
\* get_connected_devices: the serials of the rows whose state is "device"
RECURSIVE ReadyDevices(_)
ReadyDevices(rows) ==
  IF rows = <<>> THEN <<>>
  ELSE (IF Head(rows).state = "device" THEN <<Head(rows).serial>> ELSE <<>>)
       \o ReadyDevices(Tail(rows))

\* the per-thread records of the batch before are dropped when a new batch
\* is discovered (its threads have all been joined by then)
FreshThreads ==
  /\ pc' = Idle
  /\ arg_locale' = NoResult
  /\ wallpaper' = NoResult
  /\ started' = NoSeq
  /\ issued' = NoSeq
  /\ lang_result' = NoResult
  /\ primary' = NoSeq
  /\ dump' = NoDump
  /\ accounts' = NoSeq
  /\ delete_targets' = NoSeq
  /\ kept_accounts' = NoSeq
  /\ non_samsung_remaining' = NoSeq
  /\ listed_third_party' = NoSeq
  /\ listed_packages' = NoSeq

\* line 540, the command answered
get_connected_devices(rows) ==
  /\ mainPc = "get_connected_devices"
  /\ batch < MaxBatches
  /\ devices' = ReadyDevices(rows)
  /\ batch' = batch + 1
  /\ mainPc' = IF ReadyDevices(rows) = <<>> THEN "input" ELSE "select_language"
  /\ idx' = 1
  /\ threads' = <<>>
  /\ FreshThreads
  /\ UNCHANGED <<host, locale, simVars>>

\* line 540, `adb devices' exits non-zero: check_output raises, main ends
get_connected_devices_raises ==
  /\ mainPc = "get_connected_devices"
  /\ batch < MaxBatches
  /\ mainPc' = "raised"
  /\ UNCHANGED <<host, devices, locale, idx, batch, threads, threadVars>>

\* select_language: one answer at the menu
select_language(choice) ==
  /\ mainPc = "select_language"
  /\ IF choice = "0"
     THEN locale' = None /\ mainPc' = "start_threads"
     ELSE IF choice \in DOMAIN LANGUAGE_OPTIONS
          THEN locale' = LANGUAGE_OPTIONS[choice] /\ mainPc' = "start_threads"
          ELSE UNCHANGED <<locale, mainPc>>
  /\ UNCHANGED <<host, devices, idx, batch, threads, threadVars>>

\* a start loop that leaves the locale argument at its default
start_thread_default_locale ==
  /\ mainPc = "start_threads"
  /\ idx <= Len(devices)
  /\ pc' = [pc EXCEPT ![devices[idx]] = "process_device"]
  /\ arg_locale' = [arg_locale EXCEPT ![devices[idx]] = None]
  /\ threads' = Append(threads, devices[idx])
  /\ IF idx = Len(devices)
     THEN mainPc' = "join_threads" /\ idx' = 1
     ELSE mainPc' = mainPc /\ idx' = idx + 1
  /\ UNCHANGED <<host, devices, locale, batch, wallpaper, started, issued,
                 lang_result, primary, accountVars, listVars, simVars>>

\* lines 552-555: one turn of the loop that starts the threads
start_thread ==
  /\ mainPc = "start_threads"
  /\ idx <= Len(devices)
  /\ pc' = [pc EXCEPT ![devices[idx]] = "process_device"]
  /\ arg_locale' = [arg_locale EXCEPT ![devices[idx]] = locale]
  /\ threads' = Append(threads, devices[idx])
  /\ IF idx = Len(devices)
     THEN mainPc' = "join_threads" /\ idx' = 1
     ELSE mainPc' = mainPc /\ idx' = idx + 1
  /\ UNCHANGED <<host, devices, locale, batch, wallpaper, started, issued,
                 lang_result, primary, accountVars, listVars, simVars>>

\* a join that only waits for the thread to have been started
Joinable_started(d) == pc[d] # "idle"

\* a join that returns only for a thread whose target returned
Joinable_returned(d) == pc[d] = "returned"

\* t.join() returns once the thread has ended
Joinable(d) == ~Running(pc[d])

\* lines 557-558: one turn of the loop that joins the threads
join_thread ==
  /\ mainPc = "join_threads"
  /\ idx <= Len(devices)
  /\ Joinable(devices[idx])
  /\ IF idx = Len(devices)
     THEN mainPc' = "report" /\ idx' = 1
     ELSE mainPc' = mainPc /\ idx' = idx + 1
  /\ UNCHANGED <<host, devices, locale, batch, threads, threadVars>>

\* line 560: the batch is reported complete
report ==
  /\ mainPc = "report"
  /\ mainPc' = "input"
  /\ UNCHANGED <<host, devices, locale, idx, batch, threads, threadVars>>

\* lines 562-567: Enter loops, Ctrl+C ends the program
input(key) ==
  /\ mainPc = "input"
  /\ mainPc' = IF key = "ctrl_c" THEN "exit" ELSE "get_connected_devices"
  /\ UNCHANGED <<host, devices, locale, idx, batch, threads, threadVars>>

\* ----------------------------------------------------------- specification
Init ==
  /\ host \in HostConfigs
  /\ mainPc = "get_connected_devices"
  /\ devices = <<>>
  /\ threads = <<>>
  /\ locale = None
  /\ idx = 1
  /\ batch = 0
  /\ pc = Idle
  /\ arg_locale = NoResult
  /\ wallpaper = NoResult
  /\ started = NoSeq
  /\ issued = NoSeq
  /\ lang_result = NoResult
  /\ primary = NoSeq
  /\ dump = NoDump
  /\ accounts = NoSeq
  /\ delete_targets = NoSeq
  /\ kept_accounts = NoSeq
  /\ non_samsung_remaining = NoSeq
  /\ listed_third_party = NoSeq
  /\ listed_packages = NoSeq
  /\ device = NoDevices
  /\ first_run = NoSeq

\* one step of the thread of device d, its command results drawn from env
Thread(d, env) ==
  \/ process_device(d)
  \/ \E r \in env.locale_changer : set_device_language(d, r)
  \/ \E r1 \in env.dumps, r2 \in env.post_checks : remove_non_samsung_accounts(d, r1, r2)
  \/ clear_google_apps_history(d)
  \/ \E r \in env.third_party : delete_user_installed_apps(d, r)
  \/ wipe_internal_storage(d)
  \/ clear_logs_and_cache(d)
  \/ deep_clean_gallery_trash(d)
  \/ clear_media_store(d)
  \/ final_thumbnail_cleanup(d)
  \/ push_default_wallpaper(d)
  \/ trigger_tasker_task(d)
  \/ \E r \in env.packages : ensure_essential_apps_installed(d, r)

\* every answer the environment samples hold
DeviceEnv ==
  [locale_changer |-> LocaleChangerResults, dumps |-> DumpResults,
   post_checks |-> PostCheckResults, third_party |-> ThirdPartyListings,
   packages |-> PackageListings]

\* the answers that make a thread take each of its paths; the fleet is
\* explored with these
FleetEnv ==
  [locale_changer |-> {r \in LocaleChangerResults : Len(r.stdout) <= Len(s_SUCCESS)},
   dumps |-> {r \in DumpResults : r.returncode = 0},
   post_checks |-> {r \in PostCheckResults : Contains(r.stdout, line_google)},
   third_party |-> ThirdPartyListings,
   packages |-> {r \in PackageListings : ~Contains(r.stdout, pkg_tasker)}]

Main ==
  \/ \E rows \in AdbDevicesOutputs : get_connected_devices(rows)
  \/ get_connected_devices_raises
  \/ \E choice \in MenuInputs : select_language(choice)
  \/ start_thread
  \/ join_thread
  \/ report
  \/ \E key \in {"enter", "ctrl_c"} : input(key)

Next == Main \/ \E d \in Serials : Thread(d, FleetEnv)

\* the orchestrator and its threads
Spec == Init /\ [][Next]_vars

\* One run of process_device in full: main has started the thread of one
\* device and waits in join.
InitDevice ==
  /\ host \in HostConfigs
  /\ mainPc = "join_threads"
  /\ \E d \in Serials :
       /\ devices = <<d>>
       /\ threads = <<d>>
       /\ pc = [Idle EXCEPT ![d] = "process_device"]
       /\ \E loc \in {None} \cup {LANGUAGE_OPTIONS[c] : c \in MenuInputs \cap DOMAIN LANGUAGE_OPTIONS} :
            /\ locale = loc
            /\ arg_locale = [NoResult EXCEPT ![d] = loc]
  /\ idx = 1
  /\ batch = 1
  /\ wallpaper = NoResult
  /\ started = NoSeq
  /\ issued = NoSeq
  /\ lang_result = NoResult
  /\ primary = NoSeq
  /\ dump = NoDump
  /\ accounts = NoSeq
  /\ delete_targets = NoSeq
  /\ kept_accounts = NoSeq
  /\ non_samsung_remaining = NoSeq
  /\ listed_third_party = NoSeq
  /\ listed_packages = NoSeq
  /\ device = NoDevices
  /\ first_run = NoSeq

NextDevice == \E d \in Serials : Thread(d, DeviceEnv)

SpecDevice == InitDevice /\ [][NextDevice]_vars

\* ------------------------------------------- the account stage on its own
\* Account types around the trusted prefixes: every prefix cut at every
\* length, followed by up to MaxSuffixLen further characters, and two types
\* of other vendors.
Suffixes == UNION {[1..k -> {".", "x"}] : k \in 0..MaxSuffixLen}

Cuts(p) == {SubSeq(p, 1, n) : n \in 0..Len(p)}

TypeSamples ==
  {c \o suf :
     c \in UNION {Cuts(SAMSUNG_ACCOUNT_TYPES[i]) : i \in 1..Len(SAMSUNG_ACCOUNT_TYPES)},
     suf \in Suffixes}
  \cup {<<"c","o","m",".","g","o","o","g","l","e">>, <<"c","o","m",".","s","e","c",".","s","a","m","s","u","n","g">>}

s_account_name_user == <<" "," ","A","c","c","o","u","n","t"," ","{","n","a","m","e","=","u","s","e","r",","," ","t","y","p","e","=">>

\* `dumpsys account' listing one account of the type
TypeDump(t) ==
  CompletedProcess(0, dump_header \o s_nl \o s_account_name_user \o t \o s_rbrace \o s_nl)

\* Lines a registry dump may hold, well-formed and not
LineSamples == {
  <<" "," ","A","c","c","o","u","n","t"," ","{","n","a","m","e","=","u","s","e","r","@","g","m","a","i","l",".","c","o","m",","," ","t","y","p","e","=","c","o","m",".","g","o","o","g","l","e","}">>,
  <<"A","c","c","o","u","n","t"," ","{","n","a","m","e","=","m","e","@","s","a","m","s","u","n","g",".","c","o","m",","," ","t","y","p","e","=","c","o","m",".","o","s","p",".","a","p","p",".","s","i","g","n","i","n","}">>,
  <<"A","c","c","o","u","n","t"," ","{","t","y","p","e","=","c","o","m",".","g","o","o","g","l","e","}">>,
  <<"A","c","c","o","u","n","t"," ","{","n","a","m","e","=","l","o","s","t","@","g","m","a","i","l",".","c","o","m","}">>,
  <<"n","a","m","e","=","a",","," ","t","y","p","e","=","c","o","m",".","g","o","o","g","l","e">>,
  <<"A","c","c","o","u","n","t"," ","{","t","y","p","e","=","c","o","m",".","g","o","o","g","l","e",","," ","n","a","m","e","=","b","o","b","}">>,
  <<>>,
  <<"A","c","c","o","u","n","t","s",":"," ","2">>,
  <<"A","c","c","o","u","n","t"," ","{","n","a","m","e","=","o","p","e","n",","," ","t","y","p","e","=","c","o","m",".","g","o","o","g","l","e">>,
  <<"A","c","c","o","u","n","t"," ","{","n","a","m","e","=","D","o","e",","," ","J","o","h","n",","," ","t","y","p","e","=","c","o","m",".","s","a","m","s","u","n","g","}","\t">>,
  <<"A","c","c","o","u","n","t"," ","{","n","a","m","e","=",","," ","t","y","p","e","=","}">>,
  <<"A","c","c","o","u","n","t","I","n","f","o"," ","{","n","a","m","e","=","i","n","f","o",","," ","t","y","p","e","=","c","o","m",".","g","o","o","g","l","e","}">>,
  <<"A","c","c","o","u","n","t"," ","{","N","A","M","E","=","u","p","p","e","r",","," ","t","y","p","e","=","c","o","m",".","g","o","o","g","l","e","}">> }

LineDumps ==
  {CompletedProcess(0, Join(ls, s_nl)) :
     ls \in UNION {[1..k -> LineSamples] : k \in 1..MaxLines}}

AccountDumps == {TypeDump(t) : t \in TypeSamples} \cup LineDumps

\* The thread of one device has gone through set_device_language without a
\* locale and stands before remove_non_samsung_accounts.
InitAccounts ==
  /\ host \in {h \in HostConfigs : "account_remover.dex" \in h.files}
  /\ mainPc = "join_threads"
  /\ devices = <<"R58X1">>
  /\ threads = <<"R58X1">>
  /\ locale = None
  /\ idx = 1
  /\ batch = 1
  /\ pc = [Idle EXCEPT !["R58X1"] = "remove_non_samsung_accounts"]
  /\ arg_locale = [NoResult EXCEPT !["R58X1"] = None]
  /\ wallpaper = [NoResult EXCEPT !["R58X1"] = wallpaper_for(detect_series_from_serial(host, "R58X1"))]
  /\ started = [NoSeq EXCEPT !["R58X1"] = <<"set_device_language">>]
  /\ issued = NoSeq
  /\ lang_result = [NoResult EXCEPT !["R58X1"] = "skipped"]
  /\ primary = NoSeq
  /\ dump = NoDump
  /\ accounts = NoSeq
  /\ delete_targets = NoSeq
  /\ kept_accounts = NoSeq
  /\ non_samsung_remaining = NoSeq
  /\ listed_third_party = NoSeq
  /\ listed_packages = NoSeq
  /\ device = NoDevices
  /\ first_run = NoSeq

\* the second inventory finds the registry as it was, or one of the samples
NextAccounts ==
  \E r1 \in AccountDumps : \E r2 \in {r1} \cup PostCheckResults :
     remove_non_samsung_accounts("R58X1", r1, r2)

SpecAccounts == InitAccounts /\ [][NextAccounts]_vars

\* ------------------------------------------ series detection on its own
\* What device_serial_map.json may hold for a serial: the three series with
\* a wallpaper of their own, and names that have none.
SeriesNames == {"S23", "S24", "S25", "S22", "S26", "s25"}

\* the mapping file: unreadable, or any mapping of some of the serials
SeriesHosts ==
  {[files |-> AllFiles, mapping_loads |-> loads, mapping |-> m] :
     loads \in BOOLEAN,
     m \in UNION {[D -> SeriesNames] : D \in SUBSET Serials}}

\* main has started the thread of one device, which stands at line 503
InitSeries ==
  /\ host \in SeriesHosts
  /\ mainPc = "join_threads"
  /\ \E d \in Serials :
       /\ devices = <<d>>
       /\ threads = <<d>>
       /\ pc = [Idle EXCEPT ![d] = "process_device"]
  /\ locale = None
  /\ arg_locale = [d \in Serials |-> IF pc[d] = "idle" THEN "none" ELSE None]
  /\ idx = 1
  /\ batch = 1
  /\ wallpaper = NoResult
  /\ started = NoSeq
  /\ issued = NoSeq
  /\ lang_result = NoResult
  /\ primary = NoSeq
  /\ dump = NoDump
  /\ accounts = NoSeq
  /\ delete_targets = NoSeq
  /\ kept_accounts = NoSeq
  /\ non_samsung_remaining = NoSeq
  /\ listed_third_party = NoSeq
  /\ listed_packages = NoSeq
  /\ device = NoDevices
  /\ first_run = NoSeq

NextSeries == \E d \in Serials : process_device(d)

SpecSeries == InitSeries /\ [][NextSeries]_vars

\* ------------------------- app removal and app provisioning on their own
pkg_game == <<"c","o","m",".","e","x","a","m","p","l","e",".","g","a","m","e">>
pkg_mimo2 == <<"d","j","i",".","m","i","m","o","2">>
pkg_nma == <<"c","o","m",".","n","h","n",".","a","n","d","r","o","i","d",".","n","m","a">>

\* Packages a device may list: the five of exclude_apps, one unrelated, one
\* whose name extends a spared name and one whose name is the head of one.
AppSamples == Range(exclude_apps) \cup {pkg_game, pkg_mimo2, pkg_nma}

\* a device lists a package once
AppLists ==
  UNION {{a \in [1..k -> AppSamples] : \A i, j \in 1..k : i # j => a[i] # a[j]} :
           k \in 0..MaxApps}

AppListings ==
  {CompletedProcess(0, PmList(a)) : a \in AppLists} \cup {CompletedProcess(1, <<>>)}

Apks == {"nmap.apk", "dji_mimo.apk", "filemanager.apk", "Tasker.apk"}

\* hosts bundling all, some or none of the four application packages
ApkHosts ==
  {[files |-> (AllFiles \ Apks) \cup present, mapping_loads |-> FALSE,
    mapping |-> [x \in {} |-> "S24"]] :
     present \in {Apks, {"nmap.apk", "Tasker.apk"}, {"dji_mimo.apk"}, {}}}

NoApps == CompletedProcess(0, <<>>)

\* what process_device has issued when it reaches the stage, on a device
\* without locale request, accounts and third-party packages
CmdsBefore(h, d, stage) ==
  LET upto_removal ==
        set_device_language_cmds(h, d, None)
        \o remove_non_samsung_accounts_cmds(h, d, <<>>)
        \o clear_google_apps_history_cmds(d)
  IN  IF stage = "delete_user_installed_apps" THEN upto_removal
      ELSE upto_removal
           \o delete_user_installed_apps_cmds(d, NoApps)
           \o wipe_internal_storage_cmds(d)
           \o clear_logs_and_cache_cmds(d)
           \o deep_clean_gallery_trash_cmds(d)
           \o clear_media_store_cmds(d)
           \o final_thumbnail_cmds(d)
           \o push_default_wallpaper_cmds(h, d, wallpaper_for(detect_series_from_serial(h, d)))
           \o trigger_tasker_task_cmds(d)

\* The thread of one device stands before app removal, or before app
\* provisioning.
InitApps ==
  /\ host \in ApkHosts
  /\ mainPc = "join_threads"
  /\ devices = <<"R58X1">>
  /\ threads = <<"R58X1">>
  /\ locale = None
  /\ idx = 1
  /\ batch = 1
  /\ \E stage \in {"delete_user_installed_apps", "ensure_essential_apps_installed"} :
       /\ pc = [Idle EXCEPT !["R58X1"] = stage]
       /\ started = [NoSeq EXCEPT !["R58X1"] = SubSeq(STAGES, 1, StageIndex(stage) - 1)]
       /\ issued = [NoSeq EXCEPT !["R58X1"] = CmdsBefore(host, "R58X1", stage)]
       /\ listed_third_party = [NoSeq EXCEPT !["R58X1"] =
             IF stage = "delete_user_installed_apps" THEN <<>> ELSE <<NoApps>>]
  /\ arg_locale = [NoResult EXCEPT !["R58X1"] = None]
  /\ wallpaper = [NoResult EXCEPT !["R58X1"] = wallpaper_for(detect_series_from_serial(host, "R58X1"))]
  /\ lang_result = [NoResult EXCEPT !["R58X1"] = "skipped"]
  /\ primary = NoSeq
  /\ dump = NoDump
  /\ accounts = NoSeq
  /\ delete_targets = NoSeq
  /\ kept_accounts = NoSeq
  /\ non_samsung_remaining = NoSeq
  /\ listed_packages = NoSeq
  /\ device = NoDevices
  /\ first_run = NoSeq

NextApps ==
  \E r \in AppListings :
     \/ delete_user_installed_apps("R58X1", r)
     \/ ensure_essential_apps_installed("R58X1", r)

SpecApps == InitApps /\ [][NextApps]_vars

\* ------------------------------------- the destructive stages, run twice
FileSamples == {
  [dir |-> "/sdcard/DCIM/Camera", top_hidden |-> FALSE],
  [dir |-> "/sdcard/DCIM/.thumbnails", top_hidden |-> FALSE],
  [dir |-> "/sdcard/.Trash", top_hidden |-> TRUE] }

MediaSamples == {
  [uri |-> "content://media/external/images/media", is_trashed |-> 0],
  [uri |-> "content://media/external/images/media", is_trashed |-> 1],
  [uri |-> "content://call_log/calls", is_trashed |-> 0] }

\* the devices the destructive stages are run on
DeviceSamples ==
  {Device(pkgs, accs, fs, recs) :
     pkgs \in {<<>>, <<pkg_game>>, <<pkg_nmap, pkg_game>>, <<pkg_game, pkg_mimo, pkg_mimo2>>},
     accs \in {<<>>, <<line_samsung>>, <<line_google>>, <<line_samsung, line_google>>},
     fs \in SUBSET FileSamples,
     recs \in SUBSET MediaSamples}

\* The thread of a simulated device has gone through set_device_language
\* without a locale and stands before the destructive stages (line 514).
InitTwice ==
  /\ host \in {h \in HostConfigs : h.files \in {AllFiles, {}}}
  /\ mainPc = "join_threads"
  /\ devices = <<"R58X1">>
  /\ threads = <<"R58X1">>
  /\ locale = None
  /\ idx = 1
  /\ batch = 1
  /\ pc = [Idle EXCEPT !["R58X1"] = "remove_non_samsung_accounts"]
  /\ arg_locale = [NoResult EXCEPT !["R58X1"] = None]
  /\ wallpaper = [NoResult EXCEPT !["R58X1"] = wallpaper_for(detect_series_from_serial(host, "R58X1"))]
  /\ started = [NoSeq EXCEPT !["R58X1"] = <<"set_device_language">>]
  /\ issued = NoSeq
  /\ lang_result = [NoResult EXCEPT !["R58X1"] = "skipped"]
  /\ primary = NoSeq
  /\ dump = NoDump
  /\ accounts = NoSeq
  /\ delete_targets = NoSeq
  /\ kept_accounts = NoSeq
  /\ non_samsung_remaining = NoSeq
  /\ listed_third_party = NoSeq
  /\ listed_packages = NoSeq
  /\ \E dv \in DeviceSamples : device = [NoDevices EXCEPT !["R58X1"] = dv]
  /\ first_run = NoSeq

\* the destructive stages (lines 514-527) are through for the first time:
\* their outcome is kept and they are run again on the device as it is
run_again(d) ==
  /\ pc[d] = "push_default_wallpaper"
  /\ first_run[d] = <<>>
  /\ first_run' = [first_run EXCEPT ![d] =
        <<[device |-> device[d], issued |-> issued[d],
           delete_targets |-> delete_targets[d], kept_accounts |-> kept_accounts[d],
           listed_third_party |-> listed_third_party[d]]>>]
  /\ pc' = [pc EXCEPT ![d] = "remove_non_samsung_accounts"]
  /\ started' = [started EXCEPT ![d] = <<"set_device_language">>]
  /\ issued' = [issued EXCEPT ![d] = <<>>]
  /\ dump' = [dump EXCEPT ![d] = NoDump[d]]
  /\ accounts' = [accounts EXCEPT ![d] = <<>>]
  /\ delete_targets' = [delete_targets EXCEPT ![d] = <<>>]
  /\ kept_accounts' = [kept_accounts EXCEPT ![d] = <<>>]
  /\ non_samsung_remaining' = [non_samsung_remaining EXCEPT ![d] = <<>>]
  /\ listed_third_party' = [listed_third_party EXCEPT ![d] = <<>>]
  /\ UNCHANGED <<host, mainVars, arg_locale, wallpaper, lang_result, primary,
                 listed_packages, device>>

\* every command is answered by the device as it stands
NextTwice ==
  \E d \in Serials :
     \/ remove_non_samsung_accounts(d, DumpOf(device[d]),
                                    DumpOf(Effect(device[d], AccountRemoverCmd(d))))
     \/ clear_google_apps_history(d)
     \/ delete_user_installed_apps(d, ThirdPartyOf(device[d]))
     \/ wipe_internal_storage(d)
     \/ clear_logs_and_cache(d)
     \/ deep_clean_gallery_trash(d)
     \/ clear_media_store(d)
     \/ final_thumbnail_cleanup(d)
     \/ run_again(d)

SpecTwice == InitTwice /\ [][NextTwice]_vars

\* ------------------------------------- one full run on a simulated device
\* main has started the thread of one simulated device without a locale.
InitRestore ==
  /\ host \in HostConfigs
  /\ mainPc = "join_threads"
  /\ devices = <<"R58X1">>
  /\ threads = <<"R58X1">>
  /\ locale = None
  /\ idx = 1
  /\ batch = 1
  /\ pc = [Idle EXCEPT !["R58X1"] = "process_device"]
  /\ arg_locale = [NoResult EXCEPT !["R58X1"] = None]
  /\ wallpaper = NoResult
  /\ started = NoSeq
  /\ issued = NoSeq
  /\ lang_result = NoResult
  /\ primary = NoSeq
  /\ dump = NoDump
  /\ accounts = NoSeq
  /\ delete_targets = NoSeq
  /\ kept_accounts = NoSeq
  /\ non_samsung_remaining = NoSeq
  /\ listed_third_party = NoSeq
  /\ listed_packages = NoSeq
  /\ \E dv \in DeviceSamples : device = [NoDevices EXCEPT !["R58X1"] = dv]
  /\ first_run = NoSeq

\* every command is answered by the device as it stands; the helper of the
\* locale is not run (no locale), its result is not looked at
NextRestore ==
  \E d \in Serials :
     \/ process_device(d)
     \/ set_device_language(d, CompletedProcess(0, <<>>))
     \/ remove_non_samsung_accounts(d, DumpOf(device[d]),
                                    DumpOf(Effect(device[d], AccountRemoverCmd(d))))
     \/ clear_google_apps_history(d)
     \/ delete_user_installed_apps(d, ThirdPartyOf(device[d]))
     \/ wipe_internal_storage(d)
     \/ clear_logs_and_cache(d)
     \/ deep_clean_gallery_trash(d)
     \/ clear_media_store(d)
     \/ final_thumbnail_cleanup(d)
     \/ push_default_wallpaper(d)
     \/ trigger_tasker_task(d)
     \/ ensure_essential_apps_installed(d, ThirdPartyOf(device[d]))

SpecRestore == InitRestore /\ [][NextRestore]_vars

\* ------------------------------------------------- the fleet under fairness
\* A device without accounts and third-party packages, whose listing
\* commands succeed or fail.
LiveEnv ==
  [locale_changer |-> {CompletedProcess(0, s_SUCCESS)},
   dumps |-> {CompletedProcess(0, <<>>)},
   post_checks |-> {CompletedProcess(0, <<>>)},
   third_party |-> {CompletedProcess(1, <<>>), NoApps},
   packages |-> {CompletedProcess(1, <<>>), NoApps}]

NextLive == Main \/ \E d \in Serials : Thread(d, LiveEnv)

\* Scheduling: a started thread keeps running while it can take a step (its
\* commands return), and main goes on through its start loop, its join loop
\* and the completion report; nothing is assumed of the operator's answers.
Fairness ==
  /\ \A d \in Serials : WF_vars(Thread(d, LiveEnv))
  /\ WF_vars(start_thread)
  /\ WF_vars(join_thread)
  /\ WF_vars(report)

SpecLive == Init /\ [][NextLive]_vars /\ Fairness

\* ------------------------------------------------------------------ claims
Threads == {d \in Serials : pc[d] # "idle"}
Ended(d) == pc[d] \in {"returned", "raised"}
Entered(d, stage) == stage \in Range(started[d])
Count(seq, Test(_)) == Len(SelectSeq(seq, Test))

\* C1: a fault raised inside a stage is caught at the stage boundary, so
\* every stage of the fixed order, storage wipe included, has been started
\* by the time the run of process_device ends.
C1_EveryStageStartedDespiteFault ==
  \A d \in Threads :
     Ended(d) => \A i \in 1..Len(STAGES) : Entered(d, STAGES[i])

\* C2: main reports the batch and reaches the prompt between batches only
\* when no thread it started is still running; no thread runs when the next
\* discovery begins; and only the operator's input leads from one batch to
\* the discovery of the next.
C2_NoThreadRuns ==
  mainPc \in {"report", "input", "get_connected_devices", "exit"}
     => \A d \in Serials : ~Running(pc[d])

C2_NextBatchOnInput ==
  (mainPc' = "get_connected_devices" /\ mainPc # "get_connected_devices")
     => mainPc = "input"

C2_FanInBarrier == [](C2_NoThreadRuns) /\ [][C2_NextBatchOnInput]_vars

\* C2 witness: two threads of the first batch have ended, one of them by a
\* fault, and main stands at the discovery of the second batch.
C2_Witness ==
  /\ mainPc = "get_connected_devices"
  /\ batch = 1
  /\ Len(devices) = 2
  /\ \E d \in Serials : pc[d] = "raised"
  /\ \E d \in Serials : pc[d] = "returned"

\* the eleven stages, as the specification of the pipeline orders them
ElevenStages == <<
  "set_device_language", "remove_non_samsung_accounts", "clear_google_apps_history",
  "delete_user_installed_apps", "wipe_internal_storage", "clear_logs_and_cache",
  "deep_clean_gallery_trash", "clear_media_store",
  "push_default_wallpaper", "trigger_tasker_task", "ensure_essential_apps_installed" >>
IsNamedStage(x) == x \in {ElevenStages[i] : i \in 1..Len(ElevenStages)}
NamedStarted(d) == SelectSeq(started[d], IsNamedStage)

\* C3: the stages a thread has started are an initial part of the eleven
\* stages in their order, none skipped, repeated or out of place, and all
\* eleven once process_device has returned.
C3_StagesInFixedOrder ==
  \A d \in Threads :
     /\ NamedStarted(d) = SubSeq(ElevenStages, 1, Len(NamedStarted(d)))
     /\ pc[d] = "returned" => NamedStarted(d) = ElevenStages

C3_Witness == \E d \in Threads : pc[d] = "returned" /\ Len(issued[d]) > 60

\* C5: with no locale, set_device_language runs no command, records
\* nothing, and the thread goes on to the account removal.
C5_NullLocaleIsNoOp ==
  \A d \in Threads :
     (arg_locale[d] = None /\ started[d] = <<"set_device_language">>)
        => /\ issued[d] = <<>>
           /\ primary[d] = <<>>
           /\ lang_result[d] = "skipped"
           /\ pc[d] = "remove_non_samsung_accounts"

C5_Witness ==
  \E d \in Threads : arg_locale[d] = None /\ started[d] = <<"set_device_language">>

IsPrimaryLocaleSet(c) == "LocaleChanger" \in Range(c.argv)
IsSettingsWrite(c) == {"settings", "put"} \subseteq Range(c.argv)
IsPropertyWrite(c) == "setprop" \in Range(c.argv)
IsLocaleBroadcast(c) ==
  {"broadcast", "android.intent.action.LOCALE_CHANGED"} \subseteq Range(c.argv)
IsSystemUiRestart(c) == "com.android.systemui" \in Range(c.argv)
IsWait(c) == c.argv[1] = "time.sleep"

SuccessMarker == <<"S","U","C","C","E","S","S">>
\* m occurs in out, character by character
Occurs(out, m) ==
  \E i \in 1..(Len(out) + 1) :
     /\ i + Len(m) - 1 <= Len(out)
     /\ \A k \in 1..Len(m) : out[i + k - 1] = m[k]
HasSuccessMarker(out) == Occurs(out, SuccessMarker)

LocaleStageDone(d) == arg_locale[d] # None /\ Entered(d, "set_device_language")

IsAccountRemover(c) == "AccountRemover" \in Range(c.argv)

\* C8: when the registry dump gives no output or exits non-zero, the
\* inventory is the empty list and the account stage issues no removal
\* command.
C8_FailedQueryIsEmpty ==
  \A d \in Threads :
     (/\ Entered(d, "remove_non_samsung_accounts")
      /\ (dump[d].stdout = <<>> \/ dump[d].returncode # 0))
        => /\ accounts[d] = <<>>
           /\ Count(issued[d], IsAccountRemover) = 0

TrustedVendorPrefixes == {
  <<"c","o","m",".","o","s","p",".","a","p","p",".","s","i","g","n","i","n">>,
  <<"c","o","m",".","s","a","m","s","u","n","g",".","a","n","d","r","o","i","d",".","m","o","b","i","l","e","s","e","r","v","i","c","e">>,
  <<"c","o","m",".","s","a","m","s","u","n","g">> }
Trusted(t) ==
  \E p \in TrustedVendorPrefixes :
     /\ Len(t) >= Len(p)
     /\ \A k \in 1..Len(p) : t[k] = p[k]
IsClear(c) == {"pm", "clear"} \subseteq Range(c.argv)

\* C4: an account whose type equals or extends a trusted-vendor prefix is
\* logged as preserved and is in neither the deletion targets nor the
\* post-check list of remaining accounts; every other account is a deletion
\* target; and the account stage clears no application data.
C4_TrustedNeverTargeted ==
  \A d \in Threads :
     Entered(d, "remove_non_samsung_accounts")
        => /\ \A i \in 1..Len(accounts[d]) :
                IF Trusted(accounts[d][i].type)
                THEN /\ accounts[d][i] \in Range(kept_accounts[d])
                     /\ accounts[d][i] \notin Range(delete_targets[d])
                ELSE /\ accounts[d][i] \in Range(delete_targets[d])
                     /\ accounts[d][i] \notin Range(kept_accounts[d])
           /\ \A a \in Range(delete_targets[d]) : ~Trusted(a.type)
           /\ \A a \in Range(non_samsung_remaining[d]) : ~Trusted(a.type)
           /\ \A a \in Range(kept_accounts[d]) : Trusted(a.type)
           /\ Count(issued[d], IsClear) = 0

\* C4 witness: an account whose type strictly extends a trusted prefix was
\* preserved, and the removal and the post-check ran
C4_Witness ==
  \E d \in Threads :
     /\ Entered(d, "remove_non_samsung_accounts")
     /\ \E a \in Range(kept_accounts[d]) : a.type \notin TrustedVendorPrefixes
     /\ Count(issued[d], IsAccountRemover) = 1

AccountOpen == <<"A","c","c","o","u","n","t"," ","{">>
NameField == <<"n","a","m","e","=">>
TypeField == <<"t","y","p","e","=">>
\* an account line: it opens with `Account {' and holds both fields
WellFormedLine(raw) ==
  /\ StartsWith(Strip(raw), AccountOpen)
  /\ Occurs(raw, NameField)
  /\ Occurs(raw, TypeField)

ClearsOf(d, package) ==
  Len(SelectSeq(issued[d], LAMBDA c : IsClear(c) /\ package \in Range(c.argv)))
GoogleAccountApps ==
  {"com.google.android.gms", "com.google.android.gsf", "com.google.android.gsf.login"}
GoogleType == <<"c","o","m",".","g","o","o","g","l","e">>
HasRemovedGoogleAccount(d) ==
  \E a \in Range(delete_targets[d]) : StartsWith(a.type, GoogleType)

HistoryApps == {
  "com.google.android.googlequicksearchbox", "com.android.chrome",
  "com.google.android.youtube", "com.google.android.gm",
  "com.google.android.apps.maps", "com.google.android.apps.docs",
  "com.google.android.calendar", "com.google.android.apps.photos" }

C11_FailedListingDoesNotStopStage ==
  \A d \in Threads :
     \A r \in Range(listed_third_party[d]) \cup Range(listed_packages[d]) :
        r.returncode # 0 => pc[d] # "raised"

\* everything the model keeps for the thread of device d
PerThread(d) ==
  <<pc[d], arg_locale[d], wallpaper[d], started[d], issued[d], lang_result[d],
    primary[d], dump[d], accounts[d], delete_targets[d], kept_accounts[d],
    non_samsung_remaining[d], listed_third_party[d], listed_packages[d]>>

C12_OwnDeviceOnly ==
  \A d \in Serials : \A i \in 1..Len(issued[d]) :
     IsRemote(issued[d][i]) =>
        /\ issued[d][i].argv[2] = "-s"
        /\ issued[d][i].argv[3] = d

C12_StepOfOneThread ==
  \A k \in Serials :
     (Running(pc[k]) /\ PerThread(k)' # PerThread(k))
        => \A j \in Serials \ {k} : PerThread(j)' = PerThread(j)

\* C12: cross-device isolation.  Every remote command a worker issues is
\* addressed to its own device, and a step of the pipeline of device k, the
\* step in which it ends by a fault included, changes nothing of any other
\* device j: not the commands issued to j, not where j's pipeline stands,
\* not what j has recorded.
C12_CrossDeviceIsolation == [](C12_OwnDeviceOnly) /\ [][C12_StepOfOneThread]_vars

\* one pipeline of the batch ended by a fault, another ran all its stages
C12_Witness ==
  \E k, j \in Serials :
     /\ k # j
     /\ pc[k] = "raised"
     /\ pc[j] = "returned"
     /\ started[j] = STAGES
     /\ \E i \in 1..Len(issued[j]) : issued[j][i].argv[3] = j

C13_OneThreadPerDevice ==
  /\ Len(threads) <= Len(devices)
  /\ threads = SubSeq(devices, 1, Len(threads))
  /\ \A i, j \in 1..Len(threads) : i # j => threads[i] # threads[j]
  /\ \A d \in Serials : pc[d] # "idle" <=> d \in Range(threads)
  /\ \A d \in Range(threads) : arg_locale[d] = locale
  /\ mainPc \in {"join_threads", "report", "input", "exit"} => threads = devices
  /\ mainPc \in {"select_language", "start_threads", "join_threads", "report"}
        => devices # <<>>

C13_OneMenuPerBatch ==
  /\ (mainPc' = "select_language" /\ mainPc # "select_language")
        => (batch' = batch + 1 /\ devices' # <<>>)
  /\ (mainPc' = "start_threads" /\ mainPc # "start_threads")
        => mainPc = "select_language"
  /\ locale' # locale => mainPc = "select_language"
  /\ threads' # threads =>
        \/ threads' = <<>> /\ batch' = batch + 1
        \/ mainPc = "start_threads" /\ threads' = Append(threads, devices[idx])

\* C13: in a batch with at least one discovered device the locale menu is
\* entered once (only on discovery, before any thread is started, and the
\* locale changes nowhere else); the threads started are the discovered
\* devices in order, one each, none left out once the start loop is done,
\* and every one was given the locale the menu returned.
C13_OnePromptOneWorkerPerDevice ==
  [](C13_OneThreadPerDevice) /\ [][C13_OneMenuPerBatch]_vars

\* two devices, both started with the chosen locale, the batch joined
C13_Witness ==
  /\ mainPc = "report"
  /\ Len(devices) = 2
  /\ threads = devices
  /\ locale # None
  /\ \A d \in Range(devices) : arg_locale[d] = locale /\ started[d] # <<>>

LoopPcs ==
  {"get_connected_devices", "select_language", "start_threads", "join_threads",
   "report", "input"}

C14_LoopStep ==
  /\ (mainPc = "get_connected_devices" /\ mainPc' # mainPc /\ devices' = <<>>)
        => (mainPc' = "input" /\ threads' = <<>> /\ pc' = Idle)
  /\ (mainPc = "input" /\ mainPc' # mainPc)
        => mainPc' \in {"get_connected_devices", "exit"}
  /\ (mainPc \in LoopPcs /\ mainPc' \notin LoopPcs)
        => (mainPc = "input" /\ mainPc' = "exit")

\* C14 as claimed: an empty discovery starts no worker and asks for no
\* locale, it leads to the between-batch prompt and from there to the next
\* discovery; the loop is left only from the between-batch prompt, by the
\* operator ending the program.
C14_LoopEndsOnlyAtPrompt == [][C14_LoopStep]_vars

TimesIssued(d, c) == Len(SelectSeq(issued[d], LAMBDA x : x = c))

\* C16 as claimed: within one run no identical remote command is issued
\* twice.
C16_NoCommandTwice ==
  \A d \in Threads : \A i, j \in 1..Len(issued[d]) :
     (i < j /\ IsRemote(issued[d][i])) => issued[d][i] # issued[d][j]

\* the commands process_device issues at two places of its body
IssuedAtTwoPlaces(d) ==
  {clear_app_data(d, "com.sec.android.gallery3d"), DumpsysAccountCmd(d)}
  \cup {adb(d, <<"shell", "rm", "-rf", path>>) :
          path \in {"/sdcard/DCIM/.thumbnails", "/sdcard/Pictures/.thumbnails",
                    "/sdcard/Music/.thumbnails", "/sdcard/Movies/.thumbnails",
                    "/sdcard/Download/.thumbnails"}}

\* C16 amended: there is no retry: no stage is entered twice, the locale
\* helper and the account helper are run at most once whatever they
\* answered, and every remote command is issued at most once, except the
\* seven commands process_device issues at two places of its body, which
\* are issued at most twice, never twice in a row, and exactly twice each
\* (the account inventory once or twice) in a run that went through all
\* stages.
C16_NoRetry ==
  \A d \in Threads :
     /\ \A i, j \in 1..Len(started[d]) : i # j => started[d][i] # started[d][j]
     /\ Count(issued[d], IsPrimaryLocaleSet) <= 1
     /\ Count(issued[d], IsAccountRemover) <= 1
     /\ \A i \in 1..Len(issued[d]) :
          LET c == issued[d][i] IN
          IsRemote(c) =>
             /\ TimesIssued(d, c) <= (IF c \in IssuedAtTwoPlaces(d) THEN 2 ELSE 1)
             /\ i < Len(issued[d]) => issued[d][i + 1] # c
     /\ pc[d] = "returned" =>
          \A c \in IssuedAtTwoPlaces(d) :
             IF c = DumpsysAccountCmd(d) THEN TimesIssued(d, c) \in {1, 2}
             ELSE TimesIssued(d, c) = 2

\* a run through all stages whose locale helper did not confirm and whose
\* post-check still found an account to remove: neither was issued again
C16_Witness ==
  \E d \in Threads :
     /\ pc[d] = "returned"
     /\ lang_result[d] = "Uncertain"
     /\ non_samsung_remaining[d] # <<>>
     /\ Count(issued[d], IsPrimaryLocaleSet) = 1
     /\ Count(issued[d], IsAccountRemover) = 1
     /\ TimesIssued(d, clear_app_data(d, "com.sec.android.gallery3d")) = 2

\* C17: series resolution never fails and falls back to S24: whenever a
\* thread stands at the head of process_device the step is possible, and
\* after it the wallpaper chosen is `<series>.png' for the series S23, S24
\* and S25 and `S24.png' for any other, where the series is the one mapped
\* to the serial, and S24 when the mapping file is unreadable or has no
\* entry for the serial.
C17_SeriesFallsBackToS24 ==
  \A d \in Threads :
     LET mapped == host.mapping_loads /\ d \in DOMAIN host.mapping
         series == IF mapped THEN host.mapping[d] ELSE "S24"
     IN  /\ pc[d] = "process_device" => ENABLED process_device(d)
         /\ pc[d] # "process_device" =>
               wallpaper[d] = CASE series = "S23" -> "S23.png"
                                [] series = "S25" -> "S25.png"
                                [] OTHER -> "S24.png"

\* the three cases of the fallback and a series with its own wallpaper
C17_Witness ==
  \E d \in Threads :
     /\ pc[d] = STAGES[1]
     /\ \/ ~host.mapping_loads /\ d \in DOMAIN host.mapping /\ host.mapping[d] = "S25"
              /\ wallpaper[d] = "S24.png"
        \/ host.mapping_loads /\ d \notin DOMAIN host.mapping /\ wallpaper[d] = "S24.png"

IsUninstall(c) == "uninstall" \in Range(c.argv)
Uninstalled(d) == SelectSeq(issued[d], IsUninstall)
\* the line `package:NAME' of a listing, and its place in the listing
ListingLine(p) == s_nl \o s_package_colon \o p \o s_nl
Lists(out, p) == Occurs(s_nl \o out, ListingLine(p))
PlaceIn(out, p) == Find(s_nl \o out, ListingLine(p))

\* C18: after app removal on a listing that succeeded, the uninstall
\* commands issued are addressed to the device, name only packages the
\* listing enumerates and never one of the allow-list, name every
\* enumerated package that is not on the allow-list exactly once, and
\* follow the order of the enumeration.
C18_UninstallExactlyTheOthers ==
  \A d \in Threads :
     \A r \in Range(listed_third_party[d]) :
        r.returncode = 0 =>
          LET u == Uninstalled(d) IN
          /\ \A i \in 1..Len(u) :
                /\ u[i].argv = <<"adb", "-s", d, "shell", "pm", "uninstall", "--user", "0">>
                /\ u[i].text \notin Range(exclude_apps)
                /\ Lists(r.stdout, u[i].text)
          /\ \A p \in AppSamples :
                (Lists(r.stdout, p) /\ p \notin Range(exclude_apps))
                   => Cardinality({i \in 1..Len(u) : u[i].text = p}) = 1
          /\ \A i, j \in 1..Len(u) :
                i < j => PlaceIn(r.stdout, u[i].text) < PlaceIn(r.stdout, u[j].text)

\* a listing of three packages: one removed, one spared, then one removed
\* whose name extends a spared name
C18_Witness ==
  \E d \in Threads :
     /\ listed_third_party[d] = <<CompletedProcess(0, PmList(<<pkg_game, pkg_mimo, pkg_mimo2>>))>>
     /\ pc[d] = "wipe_internal_storage"
     /\ Len(Uninstalled(d)) = 2
     /\ Uninstalled(d)[1].text = pkg_game
     /\ Uninstalled(d)[2].text = pkg_mimo2

InstallIssued(d, apk) ==
  \E i \in 1..Len(issued[d]) : issued[d][i] = adb(d, <<"install", "-r", apk>>)

\* C19 as claimed: after app provisioning on a listing that succeeded, an
\* install has been issued for a required application exactly when the
\* listing does not enumerate it and its package file exists on the host.
C19_InstallIffAbsentAndBundled ==
  \A d \in Threads :
     \A r \in Range(listed_packages[d]) :
        r.returncode = 0 =>
          \A i \in 1..Len(essential_apps) :
             InstallIssued(d, essential_apps[i].apk_path)
                <=> (~Lists(r.stdout, essential_apps[i].package)
                     /\ essential_apps[i].apk_path \in host.files)

\* C20: liveness of a batch.  Once main is about to start the threads of a
\* batch, it eventually stands at the between-batch prompt, which it reaches
\* only through the completion report; and every thread that was started
\* eventually ends, by return or by a fault.
C20_BatchCompletes ==
  /\ (mainPc = "start_threads") ~> (mainPc = "report")
  /\ (mainPc = "report") ~> (mainPc = "input")
  /\ \A d \in Serials : (pc[d] = "process_device") ~> Ended(d)

\* the prompt after a batch of two in which one thread ended by a fault at
\* app removal and the other at the last stage
C20_Witness ==
  /\ mainPc = "input"
  /\ Len(threads) = 2
  /\ \E k, j \in Range(threads) :
       /\ pc[k] = "raised" /\ Len(started[k]) = StageIndex("delete_user_installed_apps")
       /\ pc[j] = "raised" /\ Len(started[j]) = Len(STAGES)

SecondRunDone(d) == first_run[d] # <<>> /\ pc[d] = "push_default_wallpaper"
\* the packages a run reported as spared: the listed ones of exclude_apps
SparedApps(listed) ==
  {p \in Range(exclude_apps) : \E r \in Range(listed) : Lists(r.stdout, p)}
RemovedApps(cmds) == {c.text : c \in {x \in Range(cmds) : IsUninstall(x)}}

IsWallpaperPush(c) == Len(c.argv) = 6 /\ c.argv[4] = "push" /\ c.argv[5] \in {"S23.png", "S24.png", "S25.png"}
\* the deletions under the storage root: the wipe, the trash and thumbnail
\* paths, the final thumbnail cleanup
StorageDeletions(d) ==
  Range(wipe_internal_storage_cmds(d)) \cup Range(final_thumbnail_cmds(d))
  \cup {adb(d, <<"shell", "rm", "-rf", trash_paths[i]>>) : i \in 1..Len(trash_paths)}
\* an `rm -rf' on the device
IsDeletion(c) == Len(c.argv) = 7 /\ c.argv[5] = "rm"

\* C21: every `rm' a run issues is one of the deletions under the storage
\* root; when the wallpaper is pushed every one of them has been issued
\* before and none is issued after; and a run that returned with the
\* wallpaper file present on the host leaves the pushed file on the
\* device, as the only file of the storage.
C21_DeletionsBeforeRestore ==
  \A d \in Threads :
     /\ \A i \in 1..Len(issued[d]) :
          /\ IsDeletion(issued[d][i]) => issued[d][i] \in StorageDeletions(d)
          /\ IsWallpaperPush(issued[d][i]) =>
                /\ \A c \in StorageDeletions(d) :
                      \E j \in 1..(i - 1) : issued[d][j] = c
                /\ \A j \in (i + 1)..Len(issued[d]) : ~IsDeletion(issued[d][j])
     /\ (pc[d] = "returned" /\ exists(host, resource_path(wallpaper[d])))
          => /\ Count(issued[d], IsWallpaperPush) = 1
             /\ device[d].files =
                  {[dir |-> RemoteWallpaper(wallpaper[d]), top_hidden |-> FALSE]}

\* a run that returned after every deletion and one push of the S25
\* wallpaper, on a device whose storage now holds that file alone
C21_Witness ==
  \E d \in Threads :
     /\ pc[d] = "returned"
     /\ Cardinality({c \in Range(issued[d]) : IsDeletion(c)}) = Cardinality(StorageDeletions(d))
     /\ device[d].files = {[dir |-> "/sdcard/DCIM/ForHoliday/S25.png", top_hidden |-> FALSE]}
     /\ \E i \in 1..Len(issued[d]) : IsWallpaperPush(issued[d][i])

====
